---- MODULE Spec2Model ----
(***************************************************************************)
(* Model of task.js (src/unnamed/part_005) of Takt: recurrence expansion.  *)
(*                                                                         *)
(* Encoding of JavaScript values:                                          *)
(*   - a Date object is its time value in MINUTES since 1970-01-01T00:00Z  *)
(*     (every instant the code builds lies on a whole minute, except the   *)
(*     23:59:59.999 of setHours, which is kept as minute 23:59; all the    *)
(*     instants it is compared with are whole minutes, so every comparison *)
(*     has the outcome it has in milliseconds);                            *)
(*   - the host's time zone is the variable tz, the offset of local time   *)
(*     from UTC in minutes (no daylight saving);                           *)
(*   - strings are TLA+ strings; null in a string field is NullStr, a      *)
(*     null recurrence is NullRecurrence; an absent property is a field    *)
(*     that is not in the record's DOMAIN;                                 *)
(*   - an exception entry is [kind |-> "deleted"] for the marker 'deleted' *)
(*     and [kind |-> "override", ex |-> fields] for an override object;    *)
(*   - the host's clock is the variable now, the value of new Date() in    *)
(*     minutes since 1970-01-01T00:00Z.                                    *)
(*                                                                         *)
(* One call of an exported function is one step: pc = "idle" before the    *)
(* call, pc names the function afterwards and result holds what it         *)
(* returned.  tasks, startStr, endStr, viewDate (the dateStr argument),    *)
(* thresholdN1 and thresholdN2 (n1, n2) are the call's arguments.          *)
(***************************************************************************)
EXTENDS Integers, Sequences, FiniteSets, TLC

VARIABLES tz, now, tasks, startStr, endStr, viewDate, thresholdN1, thresholdN2,
          result, pc

vars == <<tz, now, tasks, startStr, endStr, viewDate, thresholdN1, thresholdN2,
          result, pc>>

NullStr == "null"
NullRecurrence == [type |-> "null"]
MinutesPerDay == 1440

Has(rec, f) == f \in DOMAIN rec

(***************************************************************************)
(* The proleptic Gregorian calendar of the JavaScript Date object.         *)
(***************************************************************************)

\* Day number (days since 1970-01-01) of day `d` of month `m` (1..12) of year `y`.
DaysFromCivil(y, m, d) ==
    LET yy  == IF m <= 2 THEN y - 1 ELSE y
        era == yy \div 400
        yoe == yy - era * 400
        mp  == IF m > 2 THEN m - 3 ELSE m + 9
        doy == (153 * mp + 2) \div 5 + d - 1
        doe == yoe * 365 + yoe \div 4 - yoe \div 100 + doy
    IN  era * 146097 + doe - 719468

\* Year, month (1..12) and day of month of a day number.
CivilFromDays(z) ==
    LET zz  == z + 719468
        era == zz \div 146097
        doe == zz - era * 146097
        yoe == (doe - doe \div 1460 + doe \div 36524 - doe \div 146096) \div 365
        doy == doe - (365 * yoe + yoe \div 4 - yoe \div 100)
        mp  == (5 * doy + 2) \div 153
        d   == doy - (153 * mp + 2) \div 5 + 1
        m   == IF mp < 10 THEN mp + 3 ELSE mp - 9
    IN  [y |-> yoe + era * 400 + (IF m <= 2 THEN 1 ELSE 0), m |-> m, d |-> d]

\* Weekday of a day number, 0 = Sunday (1970-01-01 was a Thursday).
WeekdayOfDay(z) == (z + 4) % 7

\* new Date(year, month, day): local midnight; month is 0-based and, like
\* day, may lie outside its range (Date normalises by carrying over).
NewDateYMD(year, month, day) ==
    LET y == year + month \div 12
        m == month % 12
    IN  (DaysFromCivil(y, m + 1, 1) + day - 1) * MinutesPerDay - tz

LocalDay(date) == (date + tz) \div MinutesPerDay
LocalTime(date) == (date + tz) % MinutesPerDay

getFullYear(date) == CivilFromDays(LocalDay(date)).y
getMonth(date) == CivilFromDays(LocalDay(date)).m - 1
getDate(date) == CivilFromDays(LocalDay(date)).d
getDay(date) == WeekdayOfDay(LocalDay(date))

\* date.setDate(day): same local year, month and time of day.
setDate(date, day) ==
    NewDateYMD(getFullYear(date), getMonth(date), day) + LocalTime(date)

\* date.setMonth(month): same local year, day of month and time of day.
setMonth(date, month) ==
    NewDateYMD(getFullYear(date), month, getDate(date)) + LocalTime(date)

\* date.setHours(23, 59, 59, 999): the last instant of the local day.
setHoursEndOfDay(date) ==
    LocalDay(date) * MinutesPerDay + (MinutesPerDay - 1) - tz

(***************************************************************************)
(* Strings.                                                                *)
(***************************************************************************)

\* String(n).padStart(2, '0')
padStart2(n) == IF n < 10 THEN "0" \o ToString(n) ELSE ToString(n)

Digit(c) == CHOOSE n \in 0..9 : ToString(n) = c

RECURSIVE Number(_)
Number(s) ==
    IF Len(s) = 0 THEN 0
    ELSE Number(SubSeq(s, 1, Len(s) - 1)) * 10 + Digit(SubSeq(s, Len(s), Len(s)))

\* new Date("YYYY-MM-DD"): a date-only ISO string is midnight UTC.
NewDateISO(str) ==
    DaysFromCivil(Number(SubSeq(str, 1, 4)), Number(SubSeq(str, 6, 7)),
                  Number(SubSeq(str, 9, 10))) * MinutesPerDay

\* formatDate(date): YYYY-MM-DD of the local calendar date.
formatDate(date) ==
    ToString(getFullYear(date)) \o "-" \o padStart2(getMonth(date) + 1)
        \o "-" \o padStart2(getDate(date))

\* The YYYY-MM-DD string of a day number (how callers write a window).
ISODate(z) ==
    LET c == CivilFromDays(z)
    IN  ToString(c.y) \o "-" \o padStart2(c.m) \o "-" \o padStart2(c.d)

isLeapYear(year) == (year % 4 = 0 /\ year % 100 # 0) \/ (year % 400 = 0)

\* new Date(year, month + 1, 0).getDate()
getLastDayOfMonth(year, month) == getDate(NewDateYMD(year, month + 1, 0))

(***************************************************************************)
(* Recurrence expansion.                                                   *)
(***************************************************************************)

\* The numeric result of parseInt / Math.min on a missing value, and the
\* time value of an Invalid Date.  Every comparison with it is false.
NaN == -1000000000

\* Variant of parseInt that reads an absent property as 1.
parseIntOrOne(rec, f) == IF Has(rec, f) THEN rec[f] ELSE 1

\* parseInt(rec[f], 10) of a numeric property; NaN when it is absent.
parseInt(rec, f) == IF Has(rec, f) THEN rec[f] ELSE NaN

MaxAvoidLoops == 30

\* The while loop of applyAvoidRules from date d after `loops` shifts.
RECURSIVE AvoidLoop(_, _, _, _)
AvoidLoop(d, avoidDays, direction, loops) ==
    IF d # NaN /\ getDay(d) \in avoidDays /\ loops < MaxAvoidLoops
    THEN AvoidLoop(IF direction = "before" THEN setDate(d, getDate(d) - 1)
                                           ELSE setDate(d, getDate(d) + 1),
                   avoidDays, direction, loops + 1)
    ELSE d

\* Variant of applyAvoidRules that leaves the date alone when every
\* weekday is avoided.
applyAvoidRulesSkipAll(date, r) ==
    IF ~Has(r, "avoidDays") \/ r.avoidDays = {} \/ r.avoidDays = 0 .. 6 THEN date
    ELSE AvoidLoop(date, r.avoidDays,
                   IF Has(r, "avoidDirection") THEN r.avoidDirection ELSE "after", 0)

\* Variant of applyAvoidRules that always shifts forward.
applyAvoidRulesForward(date, r) ==
    IF ~Has(r, "avoidDays") \/ r.avoidDays = {} THEN date
    ELSE AvoidLoop(date, r.avoidDays, "after", 0)

\* applyAvoidRules(date, r.avoidDays, r.avoidDirection), r the rule.
applyAvoidRules(date, r) ==
    IF ~Has(r, "avoidDays") \/ r.avoidDays = {} THEN date
    ELSE AvoidLoop(date, r.avoidDays,
                   IF Has(r, "avoidDirection") THEN r.avoidDirection ELSE "after", 0)

\* { ...a, ...b }
Spread(a, b) ==
    [f \in DOMAIN a \cup DOMAIN b |-> IF f \in DOMAIN b THEN b[f] ELSE a[f]]

\* Variant of InstanceFields whose id leaves the date out.
InstanceFieldsPlainId(template, dateStr) ==
    [id             |-> template.id \o "_instance",
     originalTaskId |-> template.id,
     scheduledDate  |-> dateStr,
     isInstance     |-> TRUE,
     recurrence     |-> NullRecurrence]

\* The identity fields addInstance writes after ...template.
InstanceFields(template, dateStr) ==
    [id             |-> template.id \o "_" \o dateStr,
     originalTaskId |-> template.id,
     scheduledDate  |-> dateStr,
     isInstance     |-> TRUE,
     recurrence     |-> NullRecurrence]

\* Variant of ModifiedInstance with the spreads in the other order: the
\* template and the identity fields win over the override.
ModifiedInstanceTemplateWins(template, dateStr, ex) ==
    Spread(ex, Spread(template, InstanceFields(template, dateStr)))

\* The instance pushed for an override object ex.
ModifiedInstance(template, dateStr, ex) ==
    Spread(Spread(template, InstanceFields(template, dateStr)), ex)

\* The instance pushed when the date has no exception entry.
RegularInstance(template, dateStr) ==
    Spread(template, InstanceFields(template, dateStr))

\* Variant of addInstance without the early return for 'deleted': a
\* deleted date gets a regular instance.
addInstanceKeepsDeleted(template, dateObj, exceptions, list) ==
    LET dateStr == formatDate(dateObj)
    IN  IF dateStr \in DOMAIN exceptions /\ exceptions[dateStr].kind # "deleted"
        THEN Append(list, ModifiedInstance(template, dateStr, exceptions[dateStr].ex))
        ELSE Append(list, RegularInstance(template, dateStr))

\* addInstance(template, dateObj, exceptions, list): the list afterwards.
addInstance(template, dateObj, exceptions, list) ==
    LET dateStr == formatDate(dateObj)
    IN  IF dateStr \in DOMAIN exceptions
        THEN IF exceptions[dateStr].kind = "deleted" THEN list
             ELSE Append(list, ModifiedInstance(template, dateStr, exceptions[dateStr].ex))
        ELSE Append(list, RegularInstance(template, dateStr))

\* const exceptions = r.exceptions || {}
ExceptionsOf(r) == IF Has(r, "exceptions") THEN r.exceptions ELSE << >>

\* Effective end date: min of view end and the end of the until day.
EffectiveEndDate(r, viewEndDate) ==
    IF Has(r, "until") /\ r.until # ""
    THEN LET untilDate == setHoursEndOfDay(NewDateISO(r.until))
         IN  IF untilDate < viewEndDate THEN untilDate ELSE viewEndDate
    ELSE viewEndDate

\* The while loop of the daily branch from date d.
RECURSIVE DailyLoop(_, _, _, _)
DailyLoop(task, d, effectiveEndDate, list) ==
    IF d <= effectiveEndDate
    THEN LET r == task.recurrence
             emit == ~Has(r, "excludeDays") \/ getDay(d) \notin r.excludeDays
         IN  DailyLoop(task, setDate(d, getDate(d) + 1), effectiveEndDate,
                       IF emit THEN addInstance(task, d, ExceptionsOf(r), list) ELSE list)
    ELSE list

\* The while loop of the weekly branch from date d.
RECURSIVE WeeklyLoop(_, _, _, _)
WeeklyLoop(task, d, effectiveEndDate, list) ==
    IF d <= effectiveEndDate
    THEN LET r == task.recurrence
             emit == Has(r, "daysOfWeek") /\ getDay(d) \in r.daysOfWeek
         IN  WeeklyLoop(task, setDate(d, getDate(d) + 1), effectiveEndDate,
                        IF emit THEN addInstance(task, d, ExceptionsOf(r), list) ELSE list)
    ELSE list

\* finalDate >= startDate && finalDate <= effectiveEndDate
InRange(finalDate, startDate, effectiveEndDate) ==
    finalDate # NaN /\ finalDate >= startDate /\ finalDate <= effectiveEndDate

\* checkDate of the monthly branch for rule r in the given month.
MonthlyCheckDate(r, year, month) ==
    LET targetDay == parseInt(r, "dayOfMonth")
        lastDay == getLastDayOfMonth(year, month)
        actualDay == IF targetDay = NaN THEN NaN
                     ELSE IF targetDay < lastDay THEN targetDay ELSE lastDay
    IN  IF actualDay = NaN THEN NaN ELSE NewDateYMD(year, month, actualDay)

\* The while loop of the monthly branch from date d (a first of month).
RECURSIVE MonthlyLoop(_, _, _, _, _)
MonthlyLoop(task, d, startDate, effectiveEndDate, list) ==
    IF d <= effectiveEndDate
    THEN LET r == task.recurrence
             checkDate == MonthlyCheckDate(r, getFullYear(d), getMonth(d))
             finalDate == applyAvoidRules(checkDate, r)
         IN  MonthlyLoop(task, setMonth(d, getMonth(d) + 1), startDate, effectiveEndDate,
                         IF InRange(finalDate, startDate, effectiveEndDate)
                         THEN addInstance(task, finalDate, ExceptionsOf(r), list)
                         ELSE list)
    ELSE list

\* checkDate of the yearly branch for rule r in the given year.
YearlyCheckDate(r, year) ==
    LET month == parseInt(r, "month")
        targetDay == parseInt(r, "dayOfMonth")
        targetMonth == IF month = NaN THEN NaN ELSE month - 1
        actualDay == IF targetMonth = 1 /\ targetDay = 29 /\ ~isLeapYear(year)
                     THEN 28 ELSE targetDay
    IN  IF targetMonth = NaN \/ actualDay = NaN THEN NaN
        ELSE NewDateYMD(year, targetMonth, actualDay)

\* The for loop of the yearly branch from `year`.
RECURSIVE YearlyLoop(_, _, _, _, _, _)
YearlyLoop(task, year, endY, startDate, effectiveEndDate, list) ==
    IF year <= endY
    THEN LET r == task.recurrence
             checkDate == YearlyCheckDate(r, year)
             finalDate == applyAvoidRules(checkDate, r)
         IN  YearlyLoop(task, year + 1, endY, startDate, effectiveEndDate,
                        IF InRange(finalDate, startDate, effectiveEndDate)
                        THEN addInstance(task, finalDate, ExceptionsOf(r), list)
                        ELSE list)
    ELSE list

\* Variant of NonRecurring without the test for type 'none'.
NonRecurringNullOnly(task) ==
    ~Has(task, "recurrence") \/ task.recurrence = NullRecurrence

\* !task.recurrence || task.recurrence.type === 'none'
NonRecurring(task) ==
    \/ ~Has(task, "recurrence")
    \/ task.recurrence = NullRecurrence
    \/ task.recurrence.type = "none"

\* The body of the forEach callback for one task: result afterwards.
ExpandTask(task, startDate, viewEndDate, list) ==
    IF NonRecurring(task) THEN Append(list, task)
    ELSE LET r == task.recurrence
             effectiveEndDate == EffectiveEndDate(r, viewEndDate)
         IN  IF effectiveEndDate < startDate THEN list
             ELSE CASE r.type = "daily" ->
                         DailyLoop(task, startDate, effectiveEndDate, list)
                    [] r.type = "weekly" ->
                         WeeklyLoop(task, startDate, effectiveEndDate, list)
                    [] r.type = "monthly" ->
                         MonthlyLoop(task, setDate(startDate, 1), startDate,
                                     effectiveEndDate, list)
                    [] r.type = "yearly" ->
                         YearlyLoop(task, getFullYear(startDate),
                                    getFullYear(effectiveEndDate), startDate,
                                    effectiveEndDate, list)
                    [] OTHER -> list

RECURSIVE ForEachTask(_, _, _, _, _)
ForEachTask(ts, i, startDate, viewEndDate, list) ==
    IF i > Len(ts) THEN list
    ELSE ForEachTask(ts, i + 1, startDate, viewEndDate,
                     ExpandTask(ts[i], startDate, viewEndDate, list))

expandRecurringTasks(ts, start, end) ==
    ForEachTask(ts, 1, NewDateISO(start), NewDateISO(end), << >>)

(***************************************************************************)
(* Inputs.                                                                 *)
(***************************************************************************)

\* Host time zones: New York (EST), UTC and Tokyo, as minutes east of UTC.
TimeZones == {-300, 0, 540}

\* A task as createTask builds it, with the given id and recurrence.
Task(id, recurrence) ==
    [id |-> id, name |-> "task " \o id, duration |-> 30, targetDate |-> NullStr,
     importance |-> "mid", pinned |-> FALSE, isSomeday |-> FALSE,
     recurrence |-> recurrence, scheduledDate |-> NullStr,
     scheduledTime |-> "09:00"]

\* A plain task placed on a day, with recurrence null / 'none' / absent.
PlainNull == [Task("a", NullRecurrence) EXCEPT !.scheduledDate = "2024-01-02"]
PlainNone == [Task("b", [type |-> "none"]) EXCEPT !.scheduledDate = "2024-01-05"]
PlainAbsent ==
    [f \in DOMAIN PlainNull \ {"recurrence"} |-> IF f = "id" THEN "c" ELSE PlainNull[f]]

\* A second template that shares the list with the one under study.
OtherTemplate == Task("w", [type |-> "monthly", dayOfMonth |-> 2])

Deleted == [kind |-> "deleted"]
Override(fields) == [kind |-> "override", ex |-> fields]

\* r extended by property f with value v.
With(r, f, v) == [g \in DOMAIN r \cup {f} |-> IF g = f THEN v ELSE r[g]]

\* All rules got from the rules of `base` by leaving property f out or
\* setting it to one of `values`.
Optional(base, f, values) == base \cup {With(r, f, v) : r \in base, v \in values}

TimeOverride == [scheduledTime |-> "10:00", duration |-> 60, name |-> "moved"]
IdOverride == [id |-> "x", importance |-> "high"]

ShortExceptions ==
    { "2024-01-03" :> Deleted,
      "2024-01-03" :> Override(TimeOverride),
      ("2024-01-03" :> Override(IdOverride)) @@ ("2024-01-08" :> Deleted) }

LongExceptions ==
    { "2024-01-31" :> Deleted,
      ("2024-02-29" :> Override(TimeOverride)) @@ ("2023-02-28" :> Deleted)
          @@ ("2024-01-01" :> Override(<< >>)) }

Avoidances ==
    { [avoidDays |-> {0, 6}, avoidDirection |-> "before"],
      [avoidDays |-> {0, 6}, avoidDirection |-> "after"],
      [avoidDays |-> {1}],
      [avoidDays |-> 0 .. 6, avoidDirection |-> "after"] }

\* The rules of `base`, each also with every avoidance setting.
WithAvoidance(base) == base \cup {Spread(r, a) : r \in base, a \in Avoidances}

DailyRules ==
    Optional(Optional(Optional({[type |-> "daily"]},
        "excludeDays", {{0, 6}}),
        "until", {"2024-01-04", "2023-12-25"}),
        "exceptions", ShortExceptions)
        \cup {[type |-> "daily", excludeDays |-> {}]}

WeeklyRules ==
    Optional(Optional({[type |-> "weekly", daysOfWeek |-> days] : days \in {{1, 3}, {0}, {}}},
        "until", {"2024-01-04"}),
        "exceptions", {("2024-01-03" :> Override(TimeOverride)) @@ ("2024-01-08" :> Deleted)})

MonthlyRules ==
    Optional(Optional(WithAvoidance(
        {[type |-> "monthly", dayOfMonth |-> day] : day \in {1, 29, 31}}),
        "until", {"2024-02-29"}),
        "exceptions", LongExceptions)

YearlyRules ==
    Optional(Optional(WithAvoidance(
        {[type |-> "yearly", month |-> md[1], dayOfMonth |-> md[2]] :
            md \in {<<2, 29>>, <<1, 1>>, <<12, 31>>, <<3, 15>>}}),
        "until", {"2024-02-29"}),
        "exceptions", {"2024-02-29" :> Deleted})

\* Windows [start, start + span] in days, as pairs of day numbers.
Windows(starts, spans) == {<<s, s + n>> : s \in starts, n \in spans}

ShortSpan == 13
LongSpan == 800

ShortSpans == {-2, 0, 6, ShortSpan}

DayWindows ==
    Windows({DaysFromCivil(2023, 12, 31), DaysFromCivil(2024, 1, 1),
             DaysFromCivil(2024, 1, 3)}, ShortSpans)

WeekWindows ==
    Windows(DaysFromCivil(2023, 12, 31) .. DaysFromCivil(2024, 1, 6), ShortSpans)

MonthWindows ==
    Windows({DaysFromCivil(2024, 1, 1), DaysFromCivil(2023, 1, 1),
             DaysFromCivil(2024, 1, 31), DaysFromCivil(2023, 12, 15)},
            {0, 30, 120})

YearWindows ==
    Windows({DaysFromCivil(2023, 1, 1), DaysFromCivil(2099, 3, 1),
             DaysFromCivil(1999, 12, 31), DaysFromCivil(2024, 2, 29)},
            {365, LongSpan})

\* The task lists of a call: the template alone or among other tasks.
\* A template among other tasks.
Among(template) == <<PlainNull, template, OtherTemplate, PlainNone>>

MixedShortRules ==
    { [type |-> "daily", exceptions |-> "2024-01-03" :> Deleted],
      [type |-> "weekly", daysOfWeek |-> {1, 3}, until |-> "2024-01-04"] }

MixedLongRules ==
    { [type |-> "monthly", dayOfMonth |-> 31, avoidDays |-> {0, 6},
       avoidDirection |-> "before"],
      [type |-> "monthly", dayOfMonth |-> 1, until |-> "2024-02-29",
       exceptions |-> "2024-01-01" :> Override(TimeOverride)],
      [type |-> "yearly", month |-> 1, dayOfMonth |-> 1] }

\* Rules with a sub-field of their type left out or empty.
IncompleteShortRules ==
    { [type |-> "weekly"],
      [type |-> "weekly", daysOfWeek |-> {}],
      [type |-> "weekly", until |-> "2024-01-04"] }

IncompleteLongRules ==
    { [type |-> "monthly"],
      [type |-> "monthly", avoidDays |-> {0, 6}, avoidDirection |-> "before"],
      [type |-> "yearly", dayOfMonth |-> 15],
      [type |-> "yearly", month |-> 3],
      [type |-> "yearly"],
      [type |-> "yearly", month |-> 1, avoidDays |-> {1}] }

\* Yearly rules whose dayOfMonth is past the end of their month.
LongDayYearlyRules ==
    {[type |-> "yearly", month |-> md[1], dayOfMonth |-> md[2]] :
        md \in {<<4, 31>>, <<2, 30>>, <<2, 31>>}}

\* Monthly rules that avoid six or all seven weekdays.
HeavyAvoidRules ==
    {Spread([type |-> "monthly", dayOfMonth |-> day], a) :
        day \in {1, 30, 31},
        a \in { [avoidDays |-> 0 .. 6, avoidDirection |-> "before"],
                [avoidDays |-> 0 .. 5, avoidDirection |-> "before"],
                [avoidDays |-> 1 .. 6, avoidDirection |-> "after"] }}

PlainLists ==
    { << >>, <<PlainNull>>, <<PlainNone, PlainNull>>,
      <<PlainAbsent, PlainNone, PlainNull>>, <<PlainNull, PlainNull>> }

\* A call: the task list and the window as the caller writes it.
Calls(lists, windows) ==
    {[tasks |-> l, startStr |-> ISODate(w[1]), endStr |-> ISODate(w[2])] :
        l \in lists, w \in windows}

Templates(rules) == {<<Task("r", r)>> : r \in rules}

AllCalls ==
    Calls(PlainLists, DayWindows)
        \cup Calls({Among(Task("r", r)) : r \in MixedShortRules}, DayWindows)
        \cup Calls({Among(Task("r", r)) : r \in MixedLongRules}, MonthWindows)
        \cup Calls({Among(Task("r", r)) : r \in IncompleteShortRules}
                     \cup Templates(IncompleteShortRules), DayWindows)
        \cup Calls({Among(Task("r", r)) : r \in IncompleteLongRules}
                     \cup Templates(IncompleteLongRules), MonthWindows)
        \cup Calls(Templates(LongDayYearlyRules), YearWindows)
        \cup Calls(Templates(HeavyAvoidRules), MonthWindows)
        \cup Calls(Templates(DailyRules), DayWindows)
        \cup Calls(Templates(WeeklyRules), WeekWindows)
        \cup Calls(Templates(MonthlyRules), MonthWindows)
        \cup Calls(Templates(YearlyRules), YearWindows)

(***************************************************************************)
(* The state machine: one call of expandRecurringTasks.                    *)
(***************************************************************************)

Init ==
    /\ tz \in TimeZones
    /\ \E c \in AllCalls :
          /\ tasks = c.tasks
          /\ startStr = c.startStr
          /\ endStr = c.endStr
    /\ now = NewDateISO(startStr)
    /\ viewDate = startStr
    /\ thresholdN1 = 8
    /\ thresholdN2 = 3
    /\ result = << >>
    /\ pc = "idle"

ExpandRecurringTasks ==
    /\ pc = "idle"
    /\ result' = expandRecurringTasks(tasks, startStr, endStr)
    /\ pc' = "expanded"
    /\ UNCHANGED <<tz, now, tasks, startStr, endStr, viewDate, thresholdN1, thresholdN2>>

Next == ExpandRecurringTasks

Spec == Init /\ [][Next]_vars

(***************************************************************************)
(* Vocabulary of the properties: calendar days as day numbers, computed    *)
(* from the civil calendar and not through Date objects.                   *)
(***************************************************************************)

Expanded == pc = "expanded"

DayOfISO(str) == NewDateISO(str) \div MinutesPerDay
StartDay == DayOfISO(startStr)
EndDay == DayOfISO(endStr)

Min(a, b) == IF a < b THEN a ELSE b

\* Leap rule of the Gregorian calendar and the length of month m (1..12).
IsLeap(y) == (y % 4 = 0 /\ y % 100 # 0) \/ y % 400 = 0
DaysInMonth(y, m) ==
    IF m = 2 THEN (IF IsLeap(y) THEN 29 ELSE 28)
    ELSE IF m \in {4, 6, 9, 11} THEN 30 ELSE 31

\* min(windowEnd, until) of rule r, as a day number.
EffectiveEndDay(r) ==
    IF Has(r, "until") THEN Min(EndDay, DayOfISO(r.until)) ELSE EndDay

DeletedOn(r, str) ==
    /\ Has(r, "exceptions")
    /\ str \in DOMAIN r.exceptions
    /\ r.exceptions[str] = Deleted

HasOverrideOn(r, str) ==
    /\ Has(r, "exceptions")
    /\ str \in DOMAIN r.exceptions
    /\ r.exceptions[str].kind = "override"

OverrideOn(r, str) == IF HasOverrideOn(r, str) THEN r.exceptions[str].ex ELSE << >>

NoAvoidance(r) == ~Has(r, "avoidDays") \/ r.avoidDays = {}

\* Day D is an occurrence of rule r (a rule without weekday avoidance).
OccursOn(r, D) ==
    LET c == CivilFromDays(D)
    IN  CASE r.type = "daily" ->
               ~Has(r, "excludeDays") \/ WeekdayOfDay(D) \notin r.excludeDays
          [] r.type = "weekly" ->
               Has(r, "daysOfWeek") /\ WeekdayOfDay(D) \in r.daysOfWeek
          [] r.type = "monthly" ->
               /\ Has(r, "dayOfMonth")
               /\ c.d = Min(r.dayOfMonth, DaysInMonth(c.y, c.m))
          [] r.type = "yearly" ->
               /\ Has(r, "month")
               /\ Has(r, "dayOfMonth")
               /\ c.m = r.month
               /\ c.d = IF r.month = 2 /\ r.dayOfMonth = 29 /\ ~IsLeap(c.y)
                        THEN 28 ELSE r.dayOfMonth
          [] OTHER -> FALSE

\* The dates on which rule r is due in the window: its occurrences from
\* windowStart to min(windowEnd, until) that are not deleted.
DueDates(r) ==
    {ISODate(D) : D \in {x \in StartDay .. EffectiveEndDay(r) :
                            OccursOn(r, x) /\ ~DeletedOn(r, ISODate(x))}}

IsRecurring(t) == Has(t, "recurrence") /\ t.recurrence.type \notin {"null", "none"}
TemplatesOfType(type) ==
    {i \in 1 .. Len(tasks) : IsRecurring(tasks[i]) /\ tasks[i].recurrence.type = type}

IsInstance(e) == Has(e, "isInstance")

\* The instances of list `out` that come from template t, in output order.
InstancesIn(out, t) ==
    SelectSeq(out, LAMBDA e : IsInstance(e) /\ e.originalTaskId = t.id)
InstancesOf(t) == InstancesIn(result, t)

\* The dates of the instances of template t (no override of the inputs
\* sets scheduledDate, so it is the date the instance was emitted for).
DatesOf(t) == {InstancesOf(t)[k].scheduledDate : k \in 1 .. Len(InstancesOf(t))}

\* Template t yields one instance on each date of `dates` and no other.
EmitsExactly(t, dates) ==
    DatesOf(t) = dates /\ Len(InstancesOf(t)) = Cardinality(dates)

(***************************************************************************)
(* Properties of expandRecurringTasks.                                     *)
(***************************************************************************)

IsPlain(t) == ~Has(t, "recurrence") \/ t.recurrence.type \in {"null", "none"}

\* C1: the tasks whose recurrence is absent, null or of type 'none' are
\* returned unchanged, each exactly once and in their input order, whatever
\* the window is (also when it ends before it starts): the entries of the
\* result that are not instances are exactly the plain tasks of the input.
C1_PlainTasksPassThrough ==
    Expanded =>
        SelectSeq(result, LAMBDA e : ~IsInstance(e)) = SelectSeq(tasks, IsPlain)

C1_Witness ==
    /\ Expanded
    /\ EndDay < StartDay
    /\ tasks = <<PlainAbsent, PlainNone, PlainNull>>
    /\ result = tasks

C1_WitnessAmongInstances ==
    /\ Expanded
    /\ Len(tasks) = 4 /\ tasks[1] = PlainNull /\ tasks[4] = PlainNone
    /\ Len(result) > 4
    /\ result[1] = PlainNull /\ result[Len(result)] = PlainNone

\* C2: a daily rule yields exactly one instance on every date from
\* windowStart to min(windowEnd, until), both included, whose weekday is
\* not excluded and which is not deleted, and no instance on another date
\* (so 7 instances for a 7-day window without excludeDays).
C2_DailyEmitsDueDates ==
    Expanded =>
        \A i \in TemplatesOfType("daily") :
            EmitsExactly(tasks[i], DueDates(tasks[i].recurrence))

\* C3: a weekly rule yields exactly one instance on every date of the
\* window up to min(windowEnd, until) whose weekday is in daysOfWeek (and
\* which is not deleted), and none on another date; with Monday and
\* Wednesday, 14 consecutive days hold exactly 4 instances.
C3_WeeklyEmitsDueDates ==
    Expanded =>
        \A i \in TemplatesOfType("weekly") :
            LET r == tasks[i].recurrence
            IN  /\ EmitsExactly(tasks[i], DueDates(r))
                /\ (/\ Has(r, "daysOfWeek")
                    /\ r.daysOfWeek = {1, 3}
                    /\ EndDay - StartDay = 13
                    /\ DOMAIN r = {"type", "daysOfWeek"})
                        => Len(InstancesOf(tasks[i])) = 4

\* C4: a monthly rule without avoidDays yields exactly one instance for
\* every month whose day min(dayOfMonth, days in the month) lies in the
\* window up to min(windowEnd, until), the first and the last day of that
\* range included, and none otherwise.
C4_MonthlyEmitsDueDates ==
    Expanded =>
        \A i \in TemplatesOfType("monthly") :
            NoAvoidance(tasks[i].recurrence)
                => EmitsExactly(tasks[i], DueDates(tasks[i].recurrence))

\* C5: a yearly rule without avoidDays yields, for every year, one instance
\* on its month and dayOfMonth (February 29 becoming February 28 in a year
\* that is not leap) iff that date lies in the window up to
\* min(windowEnd, until), and nothing else.
C5_YearlyEmitsDueDates ==
    Expanded =>
        \A i \in TemplatesOfType("yearly") :
            LET r == tasks[i].recurrence
            IN  ( /\ NoAvoidance(r)
                  /\ Has(r, "month")
                  /\ Has(r, "dayOfMonth")
                  /\ r.dayOfMonth <= DaysInMonth(2024, r.month) )
                    => EmitsExactly(tasks[i], DueDates(r))

\* The template of the input that instance e was made from.
TemplateOf(e) == CHOOSE t \in {tasks[i] : i \in 1 .. Len(tasks)} : t.id = e.originalTaskId

\* C6: every instance is dated from windowStart to min(windowEnd, until)
\* of its rule, for every rule type, avoidance and exception map.
C6_InstancesInsideWindow ==
    Expanded =>
        \A k \in 1 .. Len(result) :
            IsInstance(result[k]) =>
                LET D == DayOfISO(result[k].scheduledDate)
                IN  /\ StartDay <= D
                    /\ D <= EffectiveEndDay(TemplateOf(result[k]).recurrence)

\* C7: until is inclusive. No instance is dated after the until date; when
\* the until date lies in the window and is an occurrence of the rule that
\* is not deleted, it has an instance; when min(windowEnd, until) is before
\* windowStart the template has no instance.
C7_UntilInclusive ==
    Expanded =>
        \A i \in 1 .. Len(tasks) :
            (IsRecurring(tasks[i]) /\ Has(tasks[i].recurrence, "until")) =>
                LET r == tasks[i].recurrence
                    U == DayOfISO(r.until)
                IN  /\ \A d \in DatesOf(tasks[i]) : DayOfISO(d) <= U
                    /\ (/\ StartDay <= U /\ U <= EndDay
                        /\ NoAvoidance(r)
                        /\ OccursOn(r, U) /\ ~DeletedOn(r, r.until))
                            => r.until \in DatesOf(tasks[i])
                    /\ EffectiveEndDay(r) < StartDay => DatesOf(tasks[i]) = {}

\* C8: every instance, plain or built from an override, has the id
\* <template id>_<date>, originalTaskId = the template's id, isInstance =
\* true, recurrence = null and the date of the instance as scheduledDate.
C8_InstanceIdentity ==
    Expanded =>
        \A k \in 1 .. Len(result) :
            IsInstance(result[k]) =>
                LET e == result[k]
                IN  /\ \E i \in 1 .. Len(tasks) :
                          IsRecurring(tasks[i]) /\ e.originalTaskId = tasks[i].id
                    /\ e.id = e.originalTaskId \o "_" \o e.scheduledDate
                    /\ e.isInstance = TRUE
                    /\ e.recurrence = NullRecurrence

\* The task list with exceptions[str] = 'deleted' added to the rule of task i.
WithDeleted(ts, i, str) ==
    [ts EXCEPT ![i] =
        With(ts[i], "recurrence",
             With(ts[i].recurrence, "exceptions",
                  (str :> Deleted) @@ ExceptionsOf(ts[i].recurrence)))]

\* C9: marking the date of an emitted instance as 'deleted' in its rule
\* removes that instance from the output and changes nothing else: the new
\* output is the old one without the instance of that template and date.
C9_DeletedRemovesOneInstance ==
    Expanded =>
        \A i \in 1 .. Len(tasks) :
            IsRecurring(tasks[i]) =>
                \A str \in DatesOf(tasks[i]) :
                    expandRecurringTasks(WithDeleted(tasks, i, str), startStr, endStr)
                        = SelectSeq(result,
                              LAMBDA e : ~(/\ IsInstance(e)
                                           /\ e.originalTaskId = tasks[i].id
                                           /\ e.scheduledDate = str))

\* A template emitted several instances, one of them moved by weekday
\* avoidance (dated on a day that is no day 31 or last day of a month),
\* and deleting that one leaves one instance less.
C9_Witness ==
    /\ Expanded
    /\ \E i \in TemplatesOfType("monthly") :
          /\ ~NoAvoidance(tasks[i].recurrence)
          /\ Has(tasks[i].recurrence, "dayOfMonth")
          /\ tasks[i].recurrence.dayOfMonth = 31
          /\ Len(InstancesOf(tasks[i])) >= 3
          /\ \E str \in DatesOf(tasks[i]) :
                /\ CivilFromDays(DayOfISO(str)).d \in 2 .. 27
                /\ Len(expandRecurringTasks(WithDeleted(tasks, i, str), startStr, endStr))
                      = Len(result) - 1

IdentityFields == {"id", "originalTaskId", "scheduledDate", "isInstance", "recurrence"}

\* C10: an instance has, for every field of the override object of its
\* date, the override's value, and for every other field of the template
\* (the identity fields apart) the template's value; without an exception
\* entry for its date it carries the template's values.
C10_OverrideWins ==
    Expanded =>
        \A k \in 1 .. Len(result) :
            IsInstance(result[k]) =>
                LET e == result[k]
                    t == TemplateOf(e)
                    ex == OverrideOn(t.recurrence, e.scheduledDate)
                IN  /\ \A f \in DOMAIN ex : e[f] = ex[f]
                    /\ \A f \in DOMAIN t \ (DOMAIN ex \cup IdentityFields) :
                          e[f] = t[f]

C10_Witness ==
    /\ Expanded
    /\ \E k \in 1 .. Len(result) :
          /\ IsInstance(result[k])
          /\ HasOverrideOn(TemplateOf(result[k]).recurrence, result[k].scheduledDate)
          /\ result[k].name = "moved"
          /\ result[k].scheduledTime = "10:00"
          /\ result[k].duration = 60
          /\ result[k].importance = "mid"
          /\ TemplateOf(result[k]).scheduledTime = "09:00"
    /\ \E k \in 1 .. Len(result) :
          /\ IsInstance(result[k])
          /\ ~HasOverrideOn(TemplateOf(result[k]).recurrence, result[k].scheduledDate)
          /\ result[k].name = TemplateOf(result[k]).name

(***************************************************************************)
(* Times of day, bookings and the timeline.                                *)
(***************************************************************************)

\* !value for a string property: absent, null or the empty string.
Falsy(rec, f) == ~Has(rec, f) \/ rec[f] = NullStr \/ rec[f] = ""

\* Position of the first ':' of str, Len(str) + 1 when it has none.
ColonAt(str) ==
    IF \E i \in 1 .. Len(str) : SubSeq(str, i, i) = ":"
    THEN CHOOSE i \in 1 .. Len(str) :
            /\ SubSeq(str, i, i) = ":"
            /\ \A j \in 1 .. i - 1 : SubSeq(str, j, j) # ":"
    ELSE Len(str) + 1

\* timeToMin(timeStr): [h, m] = timeStr.split(':').map(Number)
timeToMin(timeStr) ==
    LET c == ColonAt(timeStr)
        h == Number(SubSeq(timeStr, 1, c - 1))
        m == Number(SubSeq(timeStr, c + 1, Len(timeStr)))
    IN  h * 60 + m

\* minToTime(min): `${h}:${String(m).padStart(2, '0')}`
minToTime(min) == ToString(min \div 60) \o ":" \o padStart2(min % 60)

\* Variant of isBooking that counts touching intervals as overlapping.
isBookingClosed(taskA, taskB) ==
    IF Falsy(taskA, "scheduledTime") \/ Falsy(taskB, "scheduledTime") THEN FALSE
    ELSE LET startA == timeToMin(taskA.scheduledTime)
             endA == startA + taskA.duration
             startB == timeToMin(taskB.scheduledTime)
             endB == startB + taskB.duration
         IN  startA <= endB /\ startB <= endA

isBooking(taskA, taskB) ==
    IF Falsy(taskA, "scheduledTime") \/ Falsy(taskB, "scheduledTime") THEN FALSE
    ELSE LET startA == timeToMin(taskA.scheduledTime)
             endA == startA + taskA.duration
             startB == timeToMin(taskB.scheduledTime)
             endB == startB + taskB.duration
         IN  startA < endB /\ startB < endA

\* Variant of detectBookings that records only the earlier task of a pair.
detectBookingsFirstOnly(ts) ==
    UNION {IF i < j /\ isBooking(ts[i], ts[j]) THEN {ts[i].id} ELSE {} :
              i \in 1 .. Len(ts), j \in 1 .. Len(ts)}

\* detectBookings(tasks): the ids added for every pair i < j that overlaps.
detectBookings(ts) ==
    UNION {IF i < j /\ isBooking(ts[i], ts[j]) THEN {ts[i].id, ts[j].id} ELSE {} :
              i \in 1 .. Len(ts), j \in 1 .. Len(ts)}

\* Variant of TimelineEntriesAt whose empty entry lasts from the start of
\* task i to the start of task i + 1.
TimelineEntriesAtFromStart(ts, i) ==
    LET taskEntry == [type |-> "task", task |-> ts[i]]
    IN  IF i < Len(ts)
        THEN LET endA == timeToMin(ts[i].scheduledTime) + ts[i].duration
                 startB == timeToMin(ts[i + 1].scheduledTime)
             IN  IF startB > endA
                 THEN <<taskEntry,
                        [type |-> "empty", time |-> minToTime(endA),
                         duration |-> startB - timeToMin(ts[i].scheduledTime)]>>
                 ELSE <<taskEntry>>
        ELSE <<taskEntry>>

\* Variant of TimelineEntriesAt that also fills a gap of zero minutes.
TimelineEntriesAtTouching(ts, i) ==
    LET taskEntry == [type |-> "task", task |-> ts[i]]
    IN  IF i < Len(ts)
        THEN LET endA == timeToMin(ts[i].scheduledTime) + ts[i].duration
                 startB == timeToMin(ts[i + 1].scheduledTime)
             IN  IF startB >= endA
                 THEN <<taskEntry,
                        [type |-> "empty", time |-> minToTime(endA),
                         duration |-> startB - endA]>>
                 ELSE <<taskEntry>>
        ELSE <<taskEntry>>

\* The entries buildTimeline pushes in iteration i of its loop.
TimelineEntriesAt(ts, i) ==
    LET taskEntry == [type |-> "task", task |-> ts[i]]
    IN  IF i < Len(ts)
        THEN LET endA == timeToMin(ts[i].scheduledTime) + ts[i].duration
                 startB == timeToMin(ts[i + 1].scheduledTime)
             IN  IF startB > endA
                 THEN <<taskEntry,
                        [type |-> "empty", time |-> minToTime(endA),
                         duration |-> startB - endA]>>
                 ELSE <<taskEntry>>
        ELSE <<taskEntry>>

RECURSIVE TimelineLoop(_, _, _)
TimelineLoop(ts, i, entries) ==
    IF i > Len(ts) THEN entries
    ELSE TimelineLoop(ts, i + 1, entries \o TimelineEntriesAt(ts, i))

buildTimeline(ts) == IF Len(ts) = 0 THEN << >> ELSE TimelineLoop(ts, 1, << >>)

(***************************************************************************)
(* Array.prototype.sort and String.prototype.localeCompare.                *)
(***************************************************************************)

\* Collation rank of a one-character string: punctuation before digits.
CharRank(c) == IF c = ":" THEN 0 ELSE 1 + Digit(c)

\* a.localeCompare(b) for strings of digits and ':': negative, 0 or positive.
RECURSIVE localeCompare(_, _)
localeCompare(a, b) ==
    IF Len(a) = 0 \/ Len(b) = 0 THEN Len(a) - Len(b)
    ELSE LET ca == CharRank(SubSeq(a, 1, 1))
             cb == CharRank(SubSeq(b, 1, 1))
         IN  IF ca # cb THEN ca - cb
             ELSE localeCompare(SubSeq(a, 2, Len(a)), SubSeq(b, 2, Len(b)))

\* The sorted index list `order` with index k put after the last index
\* that does not compare greater than k.
RECURSIVE InsertSorted(_, _, _)
InsertSorted(order, k, cmp) ==
    IF Len(order) = 0 THEN <<k>>
    ELSE IF cmp[order[Len(order)]][k] > 0
         THEN Append(InsertSorted(SubSeq(order, 1, Len(order) - 1), k, cmp),
                     order[Len(order)])
         ELSE Append(order, k)

RECURSIVE SortedOrder(_, _)
SortedOrder(n, cmp) ==
    IF n = 0 THEN << >> ELSE InsertSorted(SortedOrder(n - 1, cmp), n, cmp)

\* arr.sort(compare), a stable sort; cmp[i][j] is compare(arr[i], arr[j]).
ArraySort(arr, cmp) ==
    LET order == SortedOrder(Len(arr), cmp)
    IN  [k \in 1 .. Len(arr) |-> arr[order[k]]]

(***************************************************************************)
(* Scoring and the selectors of the day view.                              *)
(***************************************************************************)

\* date.setHours(0, 0, 0, 0): the first instant of the local day.
setHoursStartOfDay(date) == LocalDay(date) * MinutesPerDay - tz

\* Math.round(a / b) for b > 0.
MathRoundDiv(a, b) == (2 * a + b) \div (2 * b)

\* Variant of deadlineScore that scores 3 only from n2 days on.
deadlineScoreFromN2(task, n1, n2) ==
    IF Falsy(task, "targetDate") THEN 1
    ELSE LET today == setHoursStartOfDay(now)
             target == setHoursStartOfDay(NewDateISO(task.targetDate))
             diff == MathRoundDiv(target - today, MinutesPerDay)
         IN  IF diff < 0 THEN 6
             ELSE IF diff = 0 THEN 5
             ELSE IF diff < n2 THEN 4
             ELSE IF diff < n1 THEN 3
             ELSE 2

deadlineScore(task, n1, n2) ==
    IF Falsy(task, "targetDate") THEN 1
    ELSE LET today == setHoursStartOfDay(now)
             target == setHoursStartOfDay(NewDateISO(task.targetDate))
             diff == MathRoundDiv(target - today, MinutesPerDay)
         IN  IF diff < 0 THEN 6
             ELSE IF diff = 0 THEN 5
             ELSE IF diff = 1 THEN 4
             ELSE IF diff < n1 THEN 3
             ELSE 2

IMPORTANCE_MAP == [low |-> 1, mid |-> 2, high |-> 3]

\* IMPORTANCE_MAP[task.importance] || 2
importanceScore(task) ==
    IF Has(task, "importance") /\ Has(IMPORTANCE_MAP, task.importance)
    THEN IMPORTANCE_MAP[task.importance]
    ELSE 2

totalScore(task, n1, n2) == deadlineScore(task, n1, n2) * importanceScore(task)

\* The comparator of sortSomedayTasks.
SomedayCompare(a, b, n1, n2) ==
    IF a.pinned # b.pinned THEN (IF b.pinned THEN 1 ELSE -1)
    ELSE totalScore(b, n1, n2) - totalScore(a, n1, n2)

\* Variant of sortSomedayTasks whose comparator leaves out the pinned test.
sortSomedayTasksByScoreOnly(ts, n1, n2) ==
    ArraySort(ts, [i \in 1 .. Len(ts) |-> [j \in 1 .. Len(ts) |->
                      totalScore(ts[j], n1, n2) - totalScore(ts[i], n1, n2)]])

sortSomedayTasks(ts, n1, n2) ==
    ArraySort(ts, [i \in 1 .. Len(ts) |-> [j \in 1 .. Len(ts) |->
                      SomedayCompare(ts[i], ts[j], n1, n2)]])

getTasksForDate(allTasks, str) ==
    SelectSeq(allTasks, LAMBDA t : t.scheduledDate = str /\ ~t.isSomeday)

\* Variant of getUnscheduledForDate without the test of scheduledTime.
getUnscheduledForDateAnyTime(allTasks, str) ==
    SelectSeq(allTasks, LAMBDA t : t.scheduledDate = str /\ ~t.isSomeday)

getUnscheduledForDate(allTasks, str) ==
    SelectSeq(allTasks, LAMBDA t :
        t.scheduledDate = str /\ t.scheduledTime = NullStr /\ ~t.isSomeday)

\* The filter of getScheduledForDate.
ScheduledOn(allTasks, str) ==
    SelectSeq(allTasks, LAMBDA t :
        t.scheduledDate = str /\ t.scheduledTime # NullStr /\ ~t.isSomeday)

\* Variant of getScheduledForDate without the sort.
getScheduledForDateUnsorted(allTasks, str) == ScheduledOn(allTasks, str)

getScheduledForDate(allTasks, str) ==
    LET found == ScheduledOn(allTasks, str)
    IN  ArraySort(found, [i \in 1 .. Len(found) |-> [j \in 1 .. Len(found) |->
                    localeCompare(found[i].scheduledTime, found[j].scheduledTime)]])

getSomedayTasks(allTasks) == SelectSeq(allTasks, LAMBDA t : t.isSomeday)

(***************************************************************************)
(* The day view: calls of the selectors, isBooking, detectBookings and     *)
(* buildTimeline on the tasks of a small calendar.                         *)
(***************************************************************************)

MaxDayTasks == 3

ViewDates == {"2024-01-02", "2024-01-03"}

\* Where and when a task of the calendar is placed.
Placements ==
    { [scheduledDate |-> "2024-01-02", scheduledTime |-> "09:00", duration |-> 30, isSomeday |-> FALSE],
      [scheduledDate |-> "2024-01-02", scheduledTime |-> "09:00", duration |-> 60, isSomeday |-> FALSE],
      [scheduledDate |-> "2024-01-02", scheduledTime |-> "09:30", duration |-> 30, isSomeday |-> FALSE],
      [scheduledDate |-> "2024-01-02", scheduledTime |-> "10:00", duration |-> 30, isSomeday |-> FALSE],
      [scheduledDate |-> "2024-01-02", scheduledTime |-> "13:15", duration |-> 45, isSomeday |-> FALSE],
      [scheduledDate |-> "2024-01-02", scheduledTime |-> NullStr, duration |-> 30, isSomeday |-> FALSE],
      [scheduledDate |-> "2024-01-03", scheduledTime |-> "08:05", duration |-> 25, isSomeday |-> FALSE],
      [scheduledDate |-> NullStr, scheduledTime |-> NullStr, duration |-> 30, isSomeday |-> TRUE],
      [scheduledDate |-> "2024-01-02", scheduledTime |-> "09:30", duration |-> 30, isSomeday |-> TRUE] }

\* The lists of length n whose k-th task has id t<k> and any placement.
DayLists(n) ==
    {[k \in 1 .. n |-> Spread(Task("t" \o ToString(k), NullRecurrence), ps[k])] :
        ps \in [1 .. n -> Placements]}

DayInit ==
    /\ tz = 0
    /\ now = 0
    /\ \E n \in 0 .. MaxDayTasks : tasks \in DayLists(n)
    /\ startStr = ""
    /\ endStr = ""
    /\ viewDate \in ViewDates
    /\ thresholdN1 = 8
    /\ thresholdN2 = 3
    /\ result = << >>
    /\ pc = "idle"

\* A call that only reads its arguments and returns `value`.
Return(name, value) ==
    /\ pc = "idle"
    /\ result' = value
    /\ pc' = name
    /\ UNCHANGED <<tz, now, tasks, startStr, endStr, viewDate, thresholdN1, thresholdN2>>

GetTasksForDate == Return("getTasksForDate", getTasksForDate(tasks, viewDate))

GetUnscheduledForDate ==
    Return("getUnscheduledForDate", getUnscheduledForDate(tasks, viewDate))

GetScheduledForDate ==
    Return("getScheduledForDate", getScheduledForDate(tasks, viewDate))

GetSomedayTasks == Return("getSomedayTasks", getSomedayTasks(tasks))

\* isBooking(tasks[i], tasks[j]) for two tasks of the list; the result
\* records the pair with the value returned.
IsBooking ==
    \E i, j \in 1 .. Len(tasks) :
        Return("isBooking", [a |-> i, b |-> j, value |-> isBooking(tasks[i], tasks[j])])

DetectBookings == Return("detectBookings", detectBookings(tasks))

\* buildTimeline(tasks); it throws on a task without scheduledTime
\* (timeToMin reads timeStr.split), so such a call returns nothing.
BuildTimeline ==
    /\ \A k \in 1 .. Len(tasks) : ~Falsy(tasks[k], "scheduledTime")
    /\ Return("buildTimeline", buildTimeline(tasks))

DayNext ==
    \/ GetTasksForDate
    \/ GetUnscheduledForDate
    \/ GetScheduledForDate
    \/ GetSomedayTasks
    \/ IsBooking
    \/ DetectBookings
    \/ BuildTimeline

DaySpec == DayInit /\ [][DayNext]_vars

(***************************************************************************)
(* Vocabulary of the day-view properties.                                  *)
(***************************************************************************)

HasTime(task) == Has(task, "scheduledTime") /\ task.scheduledTime # NullStr

\* Minutes since midnight of a five-character "HH:MM" string.
MinuteOfDay(str) == Number(SubSeq(str, 1, 2)) * 60 + Number(SubSeq(str, 4, 5))

StartOf(task) == MinuteOfDay(task.scheduledTime)

EndOf(task) == StartOf(task) + task.duration

\* The fixed-width form of a minute of the day: both fields two digits.
PaddedTime(min) == padStart2(min \div 60) \o ":" \o padStart2(min % 60)

Overlaps(a, b) ==
    /\ HasTime(a)
    /\ HasTime(b)
    /\ StartOf(a) < EndOf(b)
    /\ StartOf(b) < EndOf(a)

Orders(n) == {p \in [1 .. n -> 1 .. n] : \A i, j \in 1 .. n : p[i] = p[j] => i = j}

Permuted(ts, p) == [k \in 1 .. Len(ts) |-> ts[p[k]]]

TimeSorted(ts) ==
    /\ \A k \in 1 .. Len(ts) : HasTime(ts[k])
    /\ \A k \in 1 .. Len(ts) - 1 : StartOf(ts[k]) <= StartOf(ts[k + 1])

\* C12: isBooking(a, b) is true exactly when both tasks have a scheduled
\* time and each starts before the other ends; swapping the arguments
\* gives the same answer, so touching tasks and tasks without a time do
\* not overlap.
C12_IsBookingOpenIntervals ==
    pc = "isBooking" =>
        LET a == tasks[result.a]
            b == tasks[result.b]
        IN  /\ result.value = Overlaps(a, b)
            /\ result.value = isBooking(b, a)
            /\ (HasTime(a) /\ HasTime(b) /\ EndOf(a) = StartOf(b)) => ~result.value
            /\ (~HasTime(a) \/ ~HasTime(b)) => ~result.value

\* isBooking has answered for a task that ends exactly when the other starts.
C12_Witness ==
    /\ pc = "isBooking"
    /\ HasTime(tasks[result.a])
    /\ HasTime(tasks[result.b])
    /\ EndOf(tasks[result.a]) = StartOf(tasks[result.b])
    /\ result.value = FALSE

\* C13: detectBookings returns the ids of exactly the tasks that overlap
\* some other task of the list, whatever the order of the list, and the
\* empty set when no two tasks overlap.
C13_DetectBookingsExact ==
    pc = "detectBookings" =>
        LET n == Len(tasks)
        IN  /\ result = {tasks[i].id : i \in {k \in 1 .. n :
                             \E j \in (1 .. n) \ {k} : isBooking(tasks[k], tasks[j])}}
            /\ \A p \in Orders(n) : detectBookings(Permuted(tasks, p)) = result
            /\ (\A i, j \in 1 .. n : i # j => ~Overlaps(tasks[i], tasks[j])) => result = {}

\* detectBookings has reported some tasks of a list and left another out.
C13_Witness ==
    /\ pc = "detectBookings"
    /\ result # {}
    /\ \E k \in 1 .. Len(tasks) : HasTime(tasks[k]) /\ tasks[k].id \notin result

\* Positions of the task entries of a timeline, and the number of task
\* entries before position k.
TaskPositions(entries) == {k \in 1 .. Len(entries) : entries[k].type = "task"}

TasksBefore(entries, k) == Cardinality({j \in TaskPositions(entries) : j < k})

\* C14: on a time-sorted list buildTimeline returns the tasks in input
\* order, with an empty entry after task i exactly when task i+1 starts
\* after task i ends; the entry starts at the end of task i and lasts until
\* task i+1 starts. No empty entry is first or last, and no tasks give no
\* entries.
C14_TimelineGaps ==
    (pc = "buildTimeline" /\ TimeSorted(tasks)) =>
        LET n == Len(tasks)
            m == Len(result)
            empties == (1 .. m) \ TaskPositions(result)
        IN  /\ Cardinality(TaskPositions(result)) = n
            /\ \A k \in TaskPositions(result) :
                   result[k].task = tasks[TasksBefore(result, k) + 1]
            /\ \A k \in empties :
                   /\ result[k].type = "empty"
                   /\ k > 1 /\ k < m
                   /\ result[k - 1].type = "task" /\ result[k + 1].type = "task"
                   /\ LET i == TasksBefore(result, k)
                      IN  /\ StartOf(tasks[i + 1]) > EndOf(tasks[i])
                          /\ result[k].duration = StartOf(tasks[i + 1]) - EndOf(tasks[i])
                          /\ timeToMin(result[k].time) = EndOf(tasks[i])
            /\ \A i \in 1 .. n - 1 :
                   StartOf(tasks[i + 1]) > EndOf(tasks[i]) =>
                       \E k \in empties : TasksBefore(result, k) = i
            /\ n = 0 => result = << >>

\* buildTimeline has filled one gap and left touching tasks adjacent.
C14_Witness ==
    /\ pc = "buildTimeline"
    /\ TimeSorted(tasks)
    /\ Len(tasks) = 3
    /\ Len(result) = 4
    /\ \E i \in 1 .. 2 : StartOf(tasks[i + 1]) = EndOf(tasks[i])

\* C15: the time of an empty entry has the fixed-width form of a
\* scheduledTime, and a scheduledTime survives timeToMin then minToTime.
C15_EmptyTimeZeroPadded ==
    pc = "buildTimeline" =>
        /\ \A k \in 1 .. Len(result) :
               result[k].type = "empty" =>
                   result[k].time = PaddedTime(timeToMin(result[k].time))
        /\ \A k \in 1 .. Len(tasks) :
               minToTime(timeToMin(tasks[k].scheduledTime)) = tasks[k].scheduledTime

(***************************************************************************)
(* The someday list: calls of deadlineScore, importanceScore, totalScore   *)
(* and sortSomedayTasks at some instant `now` of the host clock.           *)
(***************************************************************************)

MaxSomedayTasks == 3

\* The calls happen on 2024-01-10 UTC, early or late in the day.
ClockDay == DayOfISO("2024-01-10")
ClockTimes == {180, 1200}

\* Target dates from two days before to eleven days after the clock day.
DaysBack == 2
DaysAhead == 11
TargetDates == {ISODate(z) : z \in ClockDay - DaysBack .. ClockDay + DaysAhead}

NoFields == [f \in {} |-> ""]

\* targetDate and importance as set, null or left out.
TargetChoices == {NoFields, [targetDate |-> NullStr]} \cup {[targetDate |-> d] : d \in TargetDates}

ImportanceChoices ==
    {NoFields} \cup {[importance |-> v] : v \in {"low", "mid", "high", "urgent", NullStr}}

\* A task of the someday list without targetDate and importance.
SomedayBase(id) ==
    LET t == Task(id, NullRecurrence)
    IN  [f \in DOMAIN t \ {"targetDate", "importance"} |->
            IF f = "isSomeday" THEN TRUE
            ELSE IF f = "scheduledTime" THEN NullStr
            ELSE t[f]]

\* The tasks the lists to sort are drawn from.
SomedayChoices ==
    { [pinned |-> TRUE, importance |-> "low", targetDate |-> NullStr],
      [pinned |-> TRUE, importance |-> "high", targetDate |-> "2024-01-11"],
      [pinned |-> FALSE, importance |-> "high", targetDate |-> "2024-01-10"],
      [pinned |-> FALSE, importance |-> "mid", targetDate |-> NullStr],
      [pinned |-> FALSE, importance |-> "low", targetDate |-> "2024-01-09"] }

SomedayLists(n) ==
    {[k \in 1 .. n |-> Spread(SomedayBase("t" \o ToString(k)), cs[k])] :
        cs \in [1 .. n -> SomedayChoices]}

SingleTasks ==
    {<<Spread(SomedayBase("t1"), Spread(t, i))>> : t \in TargetChoices, i \in ImportanceChoices}

Thresholds1 == {3, 8}
Thresholds2 == {3, 5}

ScoreInit ==
    /\ tz \in TimeZones
    /\ now \in {ClockDay * MinutesPerDay + t : t \in ClockTimes}
    /\ \/ tasks \in SingleTasks
       \/ \E n \in 0 .. MaxSomedayTasks : tasks \in SomedayLists(n)
    /\ startStr = ""
    /\ endStr = ""
    /\ viewDate = ""
    /\ thresholdN1 \in Thresholds1
    /\ thresholdN2 \in Thresholds2
    /\ result = << >>
    /\ pc = "idle"

\* deadlineScore(tasks[k], n1, n2); the result records k with the value.
DeadlineScore ==
    \E k \in 1 .. Len(tasks) :
        Return("deadlineScore",
               [task |-> k, value |-> deadlineScore(tasks[k], thresholdN1, thresholdN2)])

ImportanceScore ==
    \E k \in 1 .. Len(tasks) :
        Return("importanceScore", [task |-> k, value |-> importanceScore(tasks[k])])

TotalScore ==
    \E k \in 1 .. Len(tasks) :
        Return("totalScore",
               [task |-> k, value |-> totalScore(tasks[k], thresholdN1, thresholdN2)])

\* Variant of SortSomedayTasks that sorts the caller's array itself.
SortSomedayTasksInPlace ==
    /\ pc = "idle"
    /\ result' = sortSomedayTasks(tasks, thresholdN1, thresholdN2)
    /\ tasks' = result'
    /\ pc' = "sortSomedayTasks"
    /\ UNCHANGED <<tz, now, startStr, endStr, viewDate, thresholdN1, thresholdN2>>

\* [...tasks].sort(compare): the copy is sorted, tasks is only read.
SortSomedayTasks ==
    Return("sortSomedayTasks", sortSomedayTasks(tasks, thresholdN1, thresholdN2))

ScoreNext ==
    \/ DeadlineScore
    \/ ImportanceScore
    \/ TotalScore
    \/ SortSomedayTasks

ScoreSpec == ScoreInit /\ [][ScoreNext]_vars

\* The local calendar day of the clock, and whole days from it to a date.
Today == LocalDay(now)

DaysUntil(str) == DayOfISO(str) - Today

HasTarget(task) == Has(task, "targetDate") /\ task.targetDate # NullStr

\* C16: deadlineScore is 1 without a targetDate; otherwise, by the whole
\* calendar days diff from today to the targetDate, 6 if diff < 0, 5 if
\* diff = 0, 4 if diff = 1, 3 if 2 <= diff < n1, and 2 if diff >= n1 and
\* diff >= 2; so diff = n1 - 1 scores 3 and diff = n1 scores 2.
C16_DeadlineScoreByDays ==
    pc = "deadlineScore" =>
        LET task == tasks[result.task]
            n1 == thresholdN1
            diff == DaysUntil(task.targetDate)
        IN  /\ result.value \in 1 .. 6
            /\ ~HasTarget(task) => result.value = 1
            /\ HasTarget(task) =>
                   /\ diff < 0 => result.value = 6
                   /\ diff = 0 => result.value = 5
                   /\ diff = 1 => result.value = 4
                   /\ (2 <= diff /\ diff < n1) => result.value = 3
                   /\ (diff >= n1 /\ diff >= 2) => result.value = 2
                   /\ diff = n1 - 1 => result.value = 3
                   /\ diff = n1 => result.value = 2

\* C17: importanceScore is 1 for low, 2 for mid, 3 for high and 2 for
\* anything else; totalScore is deadlineScore times importanceScore, lies
\* in 1..18, and is 15 for a task of high importance due today.
C17_TotalScoreProduct ==
    /\ pc = "importanceScore" =>
           LET task == tasks[result.task]
               known == Has(task, "importance") /\ task.importance \in {"low", "mid", "high"}
           IN  /\ (known /\ task.importance = "low") => result.value = 1
               /\ (known /\ task.importance = "mid") => result.value = 2
               /\ (known /\ task.importance = "high") => result.value = 3
               /\ ~known => result.value = 2
    /\ pc = "totalScore" =>
           LET task == tasks[result.task]
           IN  /\ result.value = deadlineScore(task, thresholdN1, thresholdN2)
                                     * importanceScore(task)
               /\ result.value \in 1 .. 18
               /\ ( /\ HasTarget(task)
                    /\ DaysUntil(task.targetDate) = 0
                    /\ Has(task, "importance")
                    /\ task.importance = "high" ) => result.value = 15

\* Position in the input list of the task with the given id.
InputIndex(id) == CHOOSE k \in 1 .. Len(tasks) : tasks[k].id = id

\* C18: sortSomedayTasks returns a permutation of its input with every
\* pinned task before every unpinned one, non-increasing totalScore among
\* tasks of the same pinned value, and input order among tasks that agree
\* on both.
C18_SortSomedayTasks ==
    pc = "sortSomedayTasks" =>
        LET n == Len(tasks)
            score(t) == totalScore(t, thresholdN1, thresholdN2)
        IN  /\ Len(result) = n
            /\ \A k \in 1 .. n : \E j \in 1 .. n : result[j] = tasks[k]
            /\ \A i, j \in 1 .. n :
                   i < j =>
                       /\ result[j].pinned => result[i].pinned
                       /\ result[i].pinned = result[j].pinned =>
                              /\ score(result[i]) >= score(result[j])
                              /\ score(result[i]) = score(result[j]) =>
                                     InputIndex(result[i].id) < InputIndex(result[j].id)

\* sortSomedayTasks has moved a pinned task in front of an unpinned task
\* with a higher score and kept two equal tasks in input order.
C18_Witness ==
    /\ pc = "sortSomedayTasks"
    /\ Len(tasks) = 3
    /\ result # tasks
    /\ \E i, j \in 1 .. 3 :
           /\ i < j
           /\ result[i].pinned /\ ~result[j].pinned
           /\ totalScore(result[i], thresholdN1, thresholdN2)
                  < totalScore(result[j], thresholdN1, thresholdN2)
    /\ \E i, j \in 1 .. 3 :
           /\ i < j
           /\ result[i].pinned = result[j].pinned
           /\ totalScore(result[i], thresholdN1, thresholdN2)
                  = totalScore(result[j], thresholdN1, thresholdN2)

\* The tasks of the list that are scheduled at a time of the viewed day.
IsScheduledOnView(task) ==
    /\ task.scheduledDate = viewDate
    /\ task.scheduledTime # NullStr
    /\ task.isSomeday = FALSE

\* C19: getScheduledForDate(allTasks, d) returns exactly the tasks placed
\* on d with a scheduledTime and not someday, each once, with
\* scheduledTime non-decreasing along the result; for zero-padded HH:MM
\* that is ascending order of minutes since midnight.
C19_ScheduledForDateSorted ==
    pc = "getScheduledForDate" =>
        LET n == Len(tasks)
            m == Len(result)
        IN  /\ \A j \in 1 .. m :
                   \E k \in 1 .. n : tasks[k] = result[j] /\ IsScheduledOnView(tasks[k])
            /\ \A k \in 1 .. n :
                   Cardinality({j \in 1 .. m : result[j] = tasks[k]})
                       = (IF IsScheduledOnView(tasks[k]) THEN 1 ELSE 0)
            /\ \A j \in 1 .. m - 1 :
                   /\ localeCompare(result[j].scheduledTime, result[j + 1].scheduledTime) <= 0
                   /\ StartOf(result[j]) <= StartOf(result[j + 1])

\* getScheduledForDate has left a task out and put a later list element
\* with an earlier time first.
C19_Witness ==
    /\ pc = "getScheduledForDate"
    /\ Len(tasks) = 3
    /\ Len(result) = 2
    /\ InputIndex(result[1].id) > InputIndex(result[2].id)
    /\ StartOf(result[1]) < StartOf(result[2])

(***************************************************************************)
(* Weekday avoidance: the call of applyAvoidRules the monthly and yearly   *)
(* branches make for one candidate date of a rule.                         *)
(***************************************************************************)

AvoidYears == {2023, 2024}

Weekdays == 0 .. 6

\* avoidDays left out or any set of weekdays; avoidDirection left out,
\* 'before' or 'after'.
AvoidSettings ==
    Optional(Optional({NoFields}, "avoidDays", SUBSET Weekdays),
             "avoidDirection", {"before", "after"})

AvoidRules ==
    {Spread(base, a) :
        base \in { [type |-> "monthly", dayOfMonth |-> 1],
                   [type |-> "monthly", dayOfMonth |-> 31],
                   [type |-> "yearly", month |-> 2, dayOfMonth |-> 29] },
        a \in AvoidSettings}

AvoidInit ==
    /\ tz \in TimeZones
    /\ now = 0
    /\ \E r \in AvoidRules : tasks = <<Task("r", r)>>
    /\ startStr = ""
    /\ endStr = ""
    /\ viewDate = ""
    /\ thresholdN1 = 8
    /\ thresholdN2 = 3
    /\ result = << >>
    /\ pc = "idle"

\* checkDate of the rule for some month of some year, then
\* applyAvoidRules(checkDate, r.avoidDays, r.avoidDirection); the result
\* records the candidate with the date returned.
ApplyAvoidRules ==
    \E year \in AvoidYears, month \in 0 .. 11 :
        LET r == tasks[1].recurrence
            checkDate == IF r.type = "monthly" THEN MonthlyCheckDate(r, year, month)
                                               ELSE YearlyCheckDate(r, year)
        IN  Return("applyAvoidRules",
                   [candidate |-> checkDate, placed |-> applyAvoidRules(checkDate, r)])

AvoidNext == ApplyAvoidRules

AvoidSpec == AvoidInit /\ [][AvoidNext]_vars

\* The rule avoids some weekdays but not all, in a stated direction.
AvoidsProperSubset(r) ==
    /\ Has(r, "avoidDays")
    /\ r.avoidDays # {}
    /\ r.avoidDays # Weekdays
    /\ Has(r, "avoidDirection")

\* C20: with avoidDays a non-empty proper subset of the weekdays, the
\* occurrence is placed on the nearest day at or before the candidate
\* ('before') or at or after it ('after') whose weekday is not avoided: a
\* candidate that is not avoided stays, the placed day is never avoided,
\* and it is at most 6 days away.
C20_AvoidNearestFreeDay ==
    (pc = "applyAvoidRules" /\ AvoidsProperSubset(tasks[1].recurrence)) =>
        LET r == tasks[1].recurrence
            c == LocalDay(result.candidate)
            p == LocalDay(result.placed)
            avoided(z) == WeekdayOfDay(z) \in r.avoidDays
        IN  /\ ~avoided(p)
            /\ ~avoided(c) => p = c
            /\ r.avoidDirection = "before" =>
                   p <= c /\ c - p <= 6 /\ \A z \in p + 1 .. c : avoided(z)
            /\ r.avoidDirection = "after" =>
                   p >= c /\ p - c <= 6 /\ \A z \in c .. p - 1 : avoided(z)

\* A first of month on an avoided weekday has been moved back by more
\* than one day, into the month before.
C20_Witness ==
    /\ pc = "applyAvoidRules"
    /\ AvoidsProperSubset(tasks[1].recurrence)
    /\ tasks[1].recurrence.avoidDirection = "before"
    /\ LocalDay(result.placed) < LocalDay(result.candidate) - 1
    /\ getMonth(result.placed) # getMonth(result.candidate)

\* C21: applyAvoidRules makes at most 30 one-day shifts whatever the
\* avoidDays and direction; when all seven weekdays are avoided it makes
\* exactly 30, so the occurrence is placed 30 days from the candidate in
\* avoidDirection (forward when no direction is given).
C21_AvoidShiftCapped ==
    pc = "applyAvoidRules" =>
        LET r == tasks[1].recurrence
            c == LocalDay(result.candidate)
            p == LocalDay(result.placed)
            back == Has(r, "avoidDirection") /\ r.avoidDirection = "before"
        IN  /\ result.placed # NaN
            /\ p - c <= MaxAvoidLoops
            /\ c - p <= MaxAvoidLoops
            /\ (Has(r, "avoidDays") /\ r.avoidDays = Weekdays) =>
                   p = (IF back THEN c - MaxAvoidLoops ELSE c + MaxAvoidLoops)

\* A candidate of a rule that avoids every weekday has been moved 30 days
\* back.
C21_Witness ==
    /\ pc = "applyAvoidRules"
    /\ Has(tasks[1].recurrence, "avoidDays")
    /\ tasks[1].recurrence.avoidDays = Weekdays
    /\ LocalDay(result.placed) = LocalDay(result.candidate) - MaxAvoidLoops

\* The rule lacks a sub-field its type needs.
IsIncomplete(r) ==
    \/ r.type = "weekly" /\ (~Has(r, "daysOfWeek") \/ r.daysOfWeek = {})
    \/ r.type = "monthly" /\ ~Has(r, "dayOfMonth")
    \/ r.type = "yearly" /\ (~Has(r, "month") \/ ~Has(r, "dayOfMonth"))

\* The list ts without its i-th element.
Without(ts, i) == SubSeq(ts, 1, i - 1) \o SubSeq(ts, i + 1, Len(ts))

\* C22: a recurring task whose rule lacks a sub-field (weekly without
\* daysOfWeek or with none, monthly without dayOfMonth, yearly without
\* month or dayOfMonth) yields no instance and no error, and the call
\* returns what it returns for the other tasks alone.
C22_IncompleteRuleEmitsNothing ==
    Expanded =>
        \A i \in 1 .. Len(tasks) :
            (IsRecurring(tasks[i]) /\ IsIncomplete(tasks[i].recurrence)) =>
                /\ InstancesOf(tasks[i]) = << >>
                /\ result = expandRecurringTasks(Without(tasks, i), startStr, endStr)

\* A call with an incomplete monthly or yearly rule among other tasks has
\* returned those tasks and instances of the other template.
C22_Witness ==
    /\ Expanded
    /\ Len(tasks) = 4
    /\ IsIncomplete(tasks[2].recurrence)
    /\ tasks[2].recurrence.type # "weekly"
    /\ Len(InstancesOf(tasks[3])) > 1
    /\ Len(result) = 2 + Len(InstancesOf(tasks[3]))

\* Values of n2 a call is compared against.
OtherN2 == {0, 1, 2, 3, 5, 30}

MaxFrameTasks == 3

\* What a task of the caller's list may be: a template with exceptions, a
\* template with avoidance, tasks placed on the viewed day, someday tasks.
FrameChoices ==
    { [recurrence |-> [type |-> "daily",
                       exceptions |-> ("2024-01-03" :> Deleted)
                                          @@ ("2024-01-02" :> Override(TimeOverride))]],
      [recurrence |-> [type |-> "monthly", dayOfMonth |-> 6, avoidDays |-> {0, 6},
                       avoidDirection |-> "before"]],
      [scheduledDate |-> "2024-01-02", scheduledTime |-> "10:00"],
      [scheduledDate |-> "2024-01-02", scheduledTime |-> "09:00", duration |-> 90],
      [scheduledDate |-> "2024-01-02", scheduledTime |-> NullStr],
      [isSomeday |-> TRUE, scheduledTime |-> NullStr, pinned |-> TRUE],
      [isSomeday |-> TRUE, scheduledTime |-> NullStr, importance |-> "high",
       targetDate |-> "2024-01-02"] }

FrameLists(n) ==
    {[k \in 1 .. n |-> Spread(Task("t" \o ToString(k), NullRecurrence), cs[k])] :
        cs \in [1 .. n -> FrameChoices]}

FrameInit ==
    /\ tz \in TimeZones
    /\ now = NewDateISO("2024-01-02")
    /\ \E n \in 0 .. MaxFrameTasks : tasks \in FrameLists(n)
    /\ startStr = "2024-01-01"
    /\ endStr = "2024-01-07"
    /\ viewDate = "2024-01-02"
    /\ thresholdN1 = 8
    /\ thresholdN2 = 3
    /\ result = << >>
    /\ pc = "idle"

\* The caller is done with a result and goes on to its next call.
NextCall ==
    /\ pc # "idle"
    /\ pc' = "idle"
    /\ result' = << >>
    /\ UNCHANGED <<tz, now, tasks, startStr, endStr, viewDate, thresholdN1, thresholdN2>>

FrameNext ==
    \/ ExpandRecurringTasks
    \/ SortSomedayTasks
    \/ GetScheduledForDate
    \/ GetUnscheduledForDate
    \/ GetSomedayTasks
    \/ DetectBookings
    \/ BuildTimeline
    \/ NextCall

FrameSpec == FrameInit /\ [][FrameNext]_vars

DatesInWindow(t, a, b) ==
    LET out == InstancesIn(expandRecurringTasks(<<t>>, ISODate(a), ISODate(b)), t)
    IN  {out[k].scheduledDate : k \in 1 .. Len(out)}

\* C25: whether a template has an instance on a date does not depend on
\* the window around the date: the instances of a window are those of its
\* two parts, wherever it is cut, also when weekday avoidance moves an
\* occurrence of a neighbouring month or year into the window.
C25_WindowIndependence ==
    Expanded =>
        \A i \in 1 .. Len(tasks) :
            IsRecurring(tasks[i]) =>
                \A b \in StartDay .. EndDay - 1 :
                    DatesOf(tasks[i]) = DatesInWindow(tasks[i], StartDay, b)
                                            \cup DatesInWindow(tasks[i], b + 1, EndDay)

\* C26: on a time-sorted list, overlapping or not, no empty entry of the
\* timeline covers time in which a task of the list runs: its interval
\* [time, time + duration) meets [start, start + duration) of no task.
C26_EmptyEntriesAreFree ==
    (pc = "buildTimeline" /\ TimeSorted(tasks)) =>
        \A k \in 1 .. Len(result) :
            result[k].type = "empty" =>
                LET from == timeToMin(result[k].time)
                    to == from + result[k].duration
                IN  \A i \in 1 .. Len(tasks) :
                        EndOf(tasks[i]) <= from \/ to <= StartOf(tasks[i])

\* Calendar month (1..12) of a YYYY-MM-DD string.
MonthOfISO(str) == Number(SubSeq(str, 6, 7))

\* C27: every instance of a yearly rule without avoidDays, with month in
\* 1..12 and dayOfMonth in 1..31, is dated in calendar month `month`; a
\* dayOfMonth past the end of that month gives no instance in the month
\* after it.
C27_YearlyStaysInMonth ==
    Expanded =>
        \A i \in TemplatesOfType("yearly") :
            LET r == tasks[i].recurrence
            IN  ( /\ NoAvoidance(r)
                  /\ Has(r, "month") /\ r.month \in 1 .. 12
                  /\ Has(r, "dayOfMonth") /\ r.dayOfMonth \in 1 .. 31 ) =>
                    \A k \in 1 .. Len(InstancesOf(tasks[i])) :
                        MonthOfISO(InstancesOf(tasks[i])[k].scheduledDate) = r.month

\* No override of the rule names id or scheduledDate.
OverridesKeepIdentity(r) ==
    \A str \in DOMAIN ExceptionsOf(r) :
        HasOverrideOn(r, str) =>
            ~Has(OverrideOn(r, str), "id") /\ ~Has(OverrideOn(r, str), "scheduledDate")

\* C28: in one call a template whose overrides set neither id nor
\* scheduledDate never gets two instances with the same id, that is, at
\* most one instance per date, whatever its type, dayOfMonth, avoidDays
\* and avoidDirection (also when all weekdays are avoided and the shift
\* stops at the cap).
C28_InstanceIdsUnique ==
    Expanded =>
        \A i \in 1 .. Len(tasks) :
            (IsRecurring(tasks[i]) /\ OverridesKeepIdentity(tasks[i].recurrence)) =>
                LET out == InstancesOf(tasks[i])
                IN  \A k, l \in 1 .. Len(out) :
                        k # l => /\ out[k].id # out[l].id
                                 /\ out[k].scheduledDate # out[l].scheduledDate

\* A monthly rule that avoids all seven weekdays has got several instances.
C28_Witness ==
    /\ Expanded
    /\ Len(tasks) = 1
    /\ IsRecurring(tasks[1])
    /\ tasks[1].recurrence.type = "monthly"
    /\ Has(tasks[1].recurrence, "avoidDays")
    /\ tasks[1].recurrence.avoidDays = 0 .. 6
    /\ Len(InstancesOf(tasks[1])) >= 3

\* Start and length in minutes of a timeline entry.
EntryStart(e) == IF e.type = "task" THEN StartOf(e.task) ELSE timeToMin(e.time)

EntryDuration(e) == IF e.type = "task" THEN e.task.duration ELSE e.duration

RECURSIVE TotalDuration(_)
TotalDuration(entries) ==
    IF Len(entries) = 0 THEN 0
    ELSE EntryDuration(Head(entries)) + TotalDuration(Tail(entries))

\* C29: when the list is sorted by start time and detectBookings finds no
\* overlap in it, the timeline is contiguous: every entry begins where the
\* one before it ends, so all durations add up to the end of the last task
\* minus the start of the first.
C29_TimelineContiguous ==
    ( /\ pc = "buildTimeline"
      /\ TimeSorted(tasks)
      /\ detectBookings(tasks) = {}
      /\ Len(tasks) > 0 ) =>
        /\ \A k \in 2 .. Len(result) :
               EntryStart(result[k]) = EntryStart(result[k - 1]) + EntryDuration(result[k - 1])
        /\ TotalDuration(result) = EndOf(tasks[Len(tasks)]) - StartOf(tasks[1])

\* A timeline of three tasks without overlap, one gap filled and two
\* tasks touching.
C29_Witness ==
    /\ pc = "buildTimeline"
    /\ TimeSorted(tasks)
    /\ detectBookings(tasks) = {}
    /\ Len(tasks) = 3
    /\ Len(result) = 4

\* The set of the elements of a list.
Elements(list) == {list[k] : k \in 1 .. Len(list)}

\* C30: for every list and date d the selectors partition the day:
\* getUnscheduledForDate(d) and getScheduledForDate(d) share no task and
\* together hold exactly the tasks of getTasksForDate(d), which are the
\* tasks with scheduledDate = d that are not someday; no task of
\* getSomedayTasks is in either.
C30_SelectorsPartitionDay ==
    pc = "getTasksForDate" =>
        LET unscheduled == getUnscheduledForDate(tasks, viewDate)
            scheduled == getScheduledForDate(tasks, viewDate)
            someday == getSomedayTasks(tasks)
        IN  /\ Elements(result) =
                   {t \in Elements(tasks) : t.scheduledDate = viewDate /\ t.isSomeday = FALSE}
            /\ Elements(unscheduled) \cap Elements(scheduled) = {}
            /\ Elements(unscheduled) \cup Elements(scheduled) = Elements(result)
            /\ Len(unscheduled) + Len(scheduled) = Len(result)
            /\ Elements(someday) \cap Elements(unscheduled) = {}
            /\ Elements(someday) \cap Elements(scheduled) = {}

\* A day with a task at a time, a task without a time and, in the same
\* list, a someday task that carries the day's date.
C30_Witness ==
    /\ pc = "getTasksForDate"
    /\ Len(tasks) = 3
    /\ Len(getUnscheduledForDate(tasks, viewDate)) = 1
    /\ Len(getScheduledForDate(tasks, viewDate)) = 1
    /\ \E k \in 1 .. 3 : tasks[k].isSomeday /\ tasks[k].scheduledDate = viewDate

====
